---- MODULE Spec2Model ----
(***************************************************************************)
(* LocalEnvironmentService (nni_manager, reusable training service): the   *)
(* local execution backend.  The model covers the service's four           *)
(* operations (config, startEnvironment, stopEnvironment,                  *)
(* refreshEnvironmentsStatus), split at their await points, together with  *)
(* the filesystem artifacts and the processes of the launched scripts.     *)
(*                                                                         *)
(*   Spec         the service, its caller and the launched scripts         *)
(*   SpecConfig   the configuration intake with every kind of value        *)
(*   SpecPoll     the poll of one environment over every marker content    *)
(*   SpecOverlap  two calls whose checks of one environment overlap        *)
(*   SpecLive     a caller that keeps polling, with fairness               *)
(*   SpecScript   getScript as a function of environment and platform      *)
(***************************************************************************)
EXTENDS Integers, Sequences, FiniteSets, TLC

(***************************************************************************)
(* Bounds of the model.                                                    *)
(***************************************************************************)
NumEnvs == 2
MaxCalls == 2
MaxPolls == 1
MaxLaunches == 2
MaxInFlight == 2
MaxCodeLen == 4

Envs == 1..NumEnvs
\* The refreshEnvironmentsStatus calls whose checks can be in flight
\* together, and those of a caller that polls as its loop does.
Calls == 1..MaxCalls
Polls == 1..MaxPolls
Launches == 1..MaxLaunches

(***************************************************************************)
(* Values.                                                                 *)
(***************************************************************************)
Undefined == "undefined"
NoFolder == <<>>
Absent == [exists |-> FALSE, data |-> <<>>]
File(data) == [exists |-> TRUE, data |-> data]
Statuses == {"WAITING", "RUNNING", "SUCCEEDED", "FAILED"}
Terminal == {"SUCCEEDED", "FAILED"}
Platforms == {"win32", "darwin", "linux"}
\* One platform of each branch of line 93.  darwin and linux differ in the
\* time stamp of the last statement alone (lines 105-111).
BranchPlatforms == {"win32", "linux"}

(***************************************************************************)
(* Text.  A string is a sequence of one-character strings.                 *)
(***************************************************************************)
Digits == {"0", "1", "2", "3", "4", "5", "6", "7", "8", "9"}
WhiteSpace == {" ", "\n", "\t"}

DigitVal(c) ==
    CASE c = "0" -> 0 [] c = "1" -> 1 [] c = "2" -> 2 [] c = "3" -> 3
      [] c = "4" -> 4 [] c = "5" -> 5 [] c = "6" -> 6 [] c = "7" -> 7
      [] c = "8" -> 8 [] c = "9" -> 9

\* String.prototype.trim: drop the white space at both ends.
RECURSIVE TrimLeft(_)
TrimLeft(s) ==
    IF s # <<>> /\ Head(s) \in WhiteSpace THEN TrimLeft(Tail(s)) ELSE s

RECURSIVE TrimRight(_)
TrimRight(s) ==
    IF s # <<>> /\ s[Len(s)] \in WhiteSpace
    THEN TrimRight(SubSeq(s, 1, Len(s) - 1))
    ELSE s

Trim(s) == TrimRight(TrimLeft(s))

\* The end of the longest run of characters of class cls that starts at i
\* (i - 1 when s[i] is not in cls): the greedy match of cls*.
RECURSIVE RunEnd(_, _, _)
RunEnd(s, i, cls) ==
    IF i <= Len(s) /\ s[i] \in cls THEN RunEnd(s, i + 1, cls) ELSE i - 1

\* A variant whose pattern ends after the exit code: /^-?(\d+)/.
MatchCodePrefix(s) ==
    LET a == IF s # <<>> /\ s[1] = "-" THEN 2 ELSE 1
        b == RunEnd(s, a, Digits)
    IN  IF b >= a THEN SubSeq(s, a, b) ELSE "null"

\* s.match(/^-?(\d+)\s+(\d+)$/): the first capture group, or null.
\* The classes '-', \d and \s are disjoint, so the greedy match is the
\* only candidate.
NoMatch == "null"
MatchCode(s) ==
    LET a == IF s # <<>> /\ s[1] = "-" THEN 2 ELSE 1
        b == RunEnd(s, a, Digits)
        c == RunEnd(s, b + 1, WhiteSpace)
        d == RunEnd(s, c + 1, Digits)
    IN  IF b >= a /\ c >= b + 1 /\ d >= c + 1 /\ d = Len(s)
        THEN SubSeq(s, a, b)
        ELSE NoMatch

\* parseInt(code, 10) of a string of decimal digits.
RECURSIVE ParseInt(_)
ParseInt(ds) ==
    IF ds = <<>> THEN 0
    ELSE 10 * ParseInt(SubSeq(ds, 1, Len(ds) - 1)) + DigitVal(ds[Len(ds)])

\* The status a code marker's content stands for (lines 72-82): "" when the
\* content does not match and the status is left as it is.
StatusOfCodeInverted(content) ==
    LET m == MatchCode(Trim(content))
    IN  IF m = NoMatch THEN ""
        ELSE IF ParseInt(m) = 0 THEN "FAILED" ELSE "SUCCEEDED"

StatusOfCode(content) ==
    LET m == MatchCode(Trim(content))
    IN  IF m = NoMatch THEN ""
        ELSE IF ParseInt(m) = 0 THEN "SUCCEEDED" ELSE "FAILED"

\* Decimal text of an integer, as the shell's $? or $LASTEXITCODE prints it.
DigitChar(d) ==
    CASE d = 0 -> "0" [] d = 1 -> "1" [] d = 2 -> "2" [] d = 3 -> "3"
      [] d = 4 -> "4" [] d = 5 -> "5" [] d = 6 -> "6" [] d = 7 -> "7"
      [] d = 8 -> "8" [] d = 9 -> "9"

RECURSIVE NatText(_)
NatText(n) ==
    IF n < 10 THEN <<DigitChar(n)>>
    ELSE NatText(n \div 10) \o <<DigitChar(n % 10)>>

IntText(n) == IF n < 0 THEN <<"-">> \o NatText(0 - n) ELSE NatText(n)

(***************************************************************************)
(* The generated script (getScript, lines 91-115).  A statement is a       *)
(* record: its kind, the environment id whose working folder it names and  *)
(* the nesting depth of the command it embeds.  A command is the nesting   *)
(* depth of generated scripts around the caller's command together with    *)
(* the statements joined by the platform's new line.                       *)
(***************************************************************************)
BaseCommand == [depth |-> 0, stmts |-> <<>>]

Stmt(kind, id, inner) == [kind |-> kind, env |-> id, inner |-> inner]

\* Lines 93-101 and 102-112.  The win32 branch assigns environment.command
\* (line 96) before it builds the statement that embeds it.
GetScript(environment, id, platform) ==
    IF platform = "win32"
    THEN LET cmd == [depth |-> 0, stmts |-> <<Stmt("trial_runner", id, 0)>>]
         IN  [environment |-> [environment EXCEPT !.command = cmd],
              script |-> << Stmt("cd", 0, 0),
                            Stmt("New-Item", id, 0),
                            Stmt("cmd.exe", id, cmd.depth),
                            Stmt("NOW_DATE-seconds", 0, 0),
                            Stmt("NOW_DATE-fff", 0, 0),
                            Stmt("Write-code", id, 0) >>]
    ELSE [environment |-> environment,
          script |-> << Stmt("cd", 0, 0),
                        Stmt("eval", id, environment.command.depth),
                        IF platform = "darwin"
                        THEN Stmt("echo-code-s999", id, 0)
                        ELSE Stmt("echo-code-s3N", id, 0) >>]

\* script.join(getNewLine()), line 128.
JoinScript(script, inner) == [depth |-> inner + 1, stmts |-> script]

\* The environment whose working folder a script file's statements write
\* their markers into: the id in its last statement.
ScriptTarget(command) == command.stmts[Len(command.stmts)].env

\* What the last statement of the script writes into the code marker: the
\* exit status, a blank and the time stamp; echo ends the line, Out-File
\* -NoNewline does not.
TimeStamp == <<"7">>
FormatCode(exit, platform) ==
    IF platform = "win32"
    THEN IntText(exit) \o <<" ">> \o TimeStamp
    ELSE IntText(exit) \o <<" ">> \o TimeStamp \o <<"\n">>

\* The exit statuses a trial ends with: $? is 0..255, $LASTEXITCODE is a
\* signed integer.
ExitCodes(platform) == IF platform = "win32" THEN {0, -1} ELSE {0, 2}

\* path.join(localEnvCodeFolder, environment.id), line 125: one folder per id.
WorkingFolder(id) == IntText(id)
Folders == {WorkingFolder(e) : e \in Envs}

\* The pid marker holds the trial's process id as text; Number(pid), line 145.
PidText(pid) == NatText(pid)
NumberOf(text) == ParseInt(text)

(***************************************************************************)
(* State.                                                                  *)
(***************************************************************************)
VARIABLES
    platform,           \* process.platform
    localTrialConfig,   \* the service's trial configuration, line 22
    env,                \* the caller's EnvironmentInformation records
    dirs,               \* the working folders that exist
    copied,             \* the staged code was copied into the code root
    scriptFile,         \* the run script in the shared code root
    pidFile,            \* <folder>/pid
    codeFile,           \* <folder>/code
    run,                \* the launched scripts and their trials
    st,                 \* startEnvironment calls in flight, by environment
    sp,                 \* stopEnvironment calls in flight, by environment
    chk,                \* the checks of refreshEnvironmentsStatus in flight
    last                \* how the call or check that ended last has ended

vars == << platform, localTrialConfig, env, dirs, copied, scriptFile, pidFile,
           codeFile, run, st, sp, chk, last >>

world == << dirs, copied, scriptFile, pidFile, codeFile, run >>

NewEnvironment ==
    [status |-> "WAITING", command |-> BaseCommand,
     runnerWorkingFolder |-> NoFolder, trackingUrl |-> NoFolder,
     isAlive |-> TRUE]

\* A launch: how far its script has got, the environment whose start call
\* spawned it (owner), the environment whose folder the script it read names
\* (target) and the exit status of its trial.
NoRun == [phase |-> "none", owner |-> 0, target |-> 0, exit |-> 0]
IdleStart == [pc |-> "idle", data |-> BaseCommand]
IdleStop == [pc |-> "idle", path |-> NoFolder]
IdleCheck ==
    [pc |-> "idle", folder |-> NoFolder, pidExist |-> FALSE, pid |-> <<>>,
     alive |-> FALSE, prior |-> ""]

\* The end of a call or of a check: the operation, the environment, how it
\* ended and, for a check that ended in its handler, the status that the
\* environment had when the check began; for a config call, its arguments.
Ended(op, e, outcome) ==
    [op |-> op, env |-> e, outcome |-> outcome, prior |-> "",
     key |-> "", value |-> ""]
Nothing == Ended("", 0, "")

FileAt(files, folder) == IF folder \in Folders THEN files[folder] ELSE Absent

\* The service after construction, the caller's records as it creates them,
\* an empty experiment directory and nothing launched.
Init ==
    /\ platform \in BranchPlatforms
    /\ localTrialConfig = Undefined
    /\ env = [e \in Envs |-> NewEnvironment]
    /\ dirs = {}
    /\ copied = FALSE
    /\ scriptFile = [exists |-> FALSE, data |-> BaseCommand]
    /\ pidFile = [f \in Folders |-> Absent]
    /\ codeFile = [f \in Folders |-> Absent]
    /\ run = [l \in Launches |-> NoRun]
    /\ st = [e \in Envs |-> IdleStart]
    /\ sp = [e \in Envs |-> IdleStop]
    /\ chk = [k \in Calls |-> [e \in Envs |-> IdleCheck]]
    /\ last = Nothing

\* The asynchronous operations of the service that are in flight.
InFlight ==
    Cardinality({e \in Envs : st[e].pc # "idle"})
    + Cardinality({e \in Envs : sp[e].pc # "idle"})
    + Cardinality({c \in Calls \X Envs : chk[c[1]][c[2]].pc # "idle"})

\* No check of environment e is in flight.
NoCheckOf(e) == \A k \in Calls : chk[k][e].pc = "idle"

(***************************************************************************)
(* config (lines 44-52).                                                   *)
(***************************************************************************)
TRIAL_CONFIG == "trial_config"
ConfigKeys == {TRIAL_CONFIG, "other_key"}
ConfigValues == {"{command:A}"}

\* JSON.parse of a serialized TrialConfig: the object, or a SyntaxError for
\* a text that is not JSON.
SyntaxError == "SyntaxError"
JsonParse(value) ==
    CASE value = "{command:A}" -> "TrialConfig:A"
      [] value = "{command:B}" -> "TrialConfig:B"
      [] OTHER -> SyntaxError

ConfigEnded(key, value, outcome) ==
    [Ended("config", 0, outcome) EXCEPT !.key = key, !.value = value]

\* A variant that keeps a configuration once it has one.
ConfigKeepsFirst(key, value) ==
    /\ IF key = TRIAL_CONFIG
       THEN IF JsonParse(value) = SyntaxError
            THEN /\ last' = ConfigEnded(key, value, SyntaxError)
                 /\ UNCHANGED localTrialConfig
            ELSE /\ localTrialConfig' =
                      IF localTrialConfig = Undefined
                      THEN JsonParse(value) ELSE localTrialConfig
                 /\ last' = ConfigEnded(key, value, "resolved")
       ELSE /\ last' = ConfigEnded(key, value, "resolved")
            /\ UNCHANGED localTrialConfig
    /\ UNCHANGED << platform, env, world, st, sp, chk >>

\* Lines 45-51: the trial configuration key stores the parsed value (the
\* call rejects when JSON.parse throws); any other key is logged.
Config(key, value) ==
    /\ IF key = TRIAL_CONFIG
       THEN IF JsonParse(value) = SyntaxError
            THEN /\ last' = ConfigEnded(key, value, SyntaxError)
                 /\ UNCHANGED localTrialConfig
            ELSE /\ localTrialConfig' = JsonParse(value)
                 /\ last' = ConfigEnded(key, value, "resolved")
       ELSE /\ last' = ConfigEnded(key, value, "resolved")
            /\ UNCHANGED localTrialConfig
    /\ UNCHANGED << platform, env, world, st, sp, chk >>

(***************************************************************************)
(* startEnvironment (lines 117-136), one action per await.                 *)
(***************************************************************************)
StartsInFlight == {e \in Envs : st[e].pc # "idle"}
LaunchesUsed == {l \in Launches : run[l].phase # "none"}
FreeLaunch == CHOOSE l \in Launches :
                 /\ run[l].phase = "none"
                 /\ \A m \in Launches : run[m].phase = "none" => l <= m

\* Line 119.
ConfigErrorMessage == "Local trial config is not initialized"

\* A variant that sets the working folder before it looks at the
\* configuration.
StartEnvironmentLateCheck(e) ==
    /\ st[e].pc = "idle"
    /\ InFlight < MaxInFlight
    /\ Cardinality(LaunchesUsed) + Cardinality(StartsInFlight) < MaxLaunches
    /\ env' = [env EXCEPT ![e].runnerWorkingFolder = WorkingFolder(e)]
    /\ IF localTrialConfig = Undefined
       THEN /\ last' = Ended("start", e, ConfigErrorMessage)
            /\ UNCHANGED st
       ELSE /\ st' = [st EXCEPT ![e].pc = "mkdir"]
            /\ UNCHANGED last
    /\ UNCHANGED << platform, localTrialConfig, world, sp, chk >>

\* Lines 118-126: the configuration check, the folder's path, and the call
\* of execMkdir.
StartEnvironment(e) ==
    /\ st[e].pc = "idle"
    /\ InFlight < MaxInFlight
    /\ Cardinality(LaunchesUsed) + Cardinality(StartsInFlight) < MaxLaunches
    /\ IF localTrialConfig = Undefined
       THEN /\ last' = Ended("start", e, ConfigErrorMessage)
            /\ UNCHANGED << env, st >>
       ELSE /\ env' = [env EXCEPT ![e].runnerWorkingFolder = WorkingFolder(e)]
            /\ st' = [st EXCEPT ![e].pc = "mkdir"]
            /\ UNCHANGED last
    /\ UNCHANGED << platform, localTrialConfig, world, sp, chk >>

\* Lines 126-127: execMkdir resolves; execCopydir is called.
StartMkdirDone(e) ==
    /\ st[e].pc = "mkdir"
    /\ dirs' = dirs \cup {env[e].runnerWorkingFolder}
    /\ st' = [st EXCEPT ![e].pc = "copydir"]
    /\ UNCHANGED << platform, localTrialConfig, env, copied, scriptFile, pidFile,
                    codeFile, run, sp, chk, last >>

\* Lines 127-131: execCopydir resolves; the script is generated, stored as
\* the environment's command and handed to writeFile.
StartCopydirDone(e) ==
    /\ st[e].pc = "copydir"
    /\ copied' = TRUE
    /\ LET g == GetScript(env[e], e, platform)
           cmd == JoinScript(g.script, g.environment.command.depth)
       IN  /\ env' = [env EXCEPT ![e] = [g.environment EXCEPT !.command = cmd]]
           /\ st' = [st EXCEPT ![e] = [pc |-> "writeFile", data |-> cmd]]
    /\ UNCHANGED << platform, localTrialConfig, dirs, scriptFile, pidFile,
                    codeFile, run, sp, chk, last >>

\* Lines 130-135: writeFile resolves; runScript spawns the launcher and the
\* tracking url is set.
StartWriteDone(e) ==
    /\ st[e].pc = "writeFile"
    /\ scriptFile' = [exists |-> TRUE, data |-> st[e].data]
    /\ run' = [run EXCEPT ![FreeLaunch] =
                  [NoRun EXCEPT !.phase = "spawned", !.owner = e]]
    /\ env' = [env EXCEPT ![e].trackingUrl = env[e].runnerWorkingFolder]
    /\ st' = [st EXCEPT ![e] = IdleStart]
    /\ last' = Ended("start", e, "resolved")
    /\ UNCHANGED << platform, localTrialConfig, dirs, copied, pidFile, codeFile,
                    sp, chk >>

(***************************************************************************)
(* The launched script and its trial (the statements of getScript, run by  *)
(* the shell that runScript spawned).                                      *)
(***************************************************************************)
\* The shell opens the script file.
LauncherReads(l) ==
    /\ run[l].phase = "spawned"
    /\ run' = [run EXCEPT ![l].phase = "script",
                          ![l].target = ScriptTarget(scriptFile.data)]
    /\ UNCHANGED << platform, localTrialConfig, env, dirs, copied, scriptFile,
                    pidFile, codeFile, st, sp, chk, last >>

\* The trial runner starts and writes its process id (--job_pid_file).
TrialStarts(l) ==
    /\ run[l].phase = "script"
    /\ run' = [run EXCEPT ![l].phase = "trial"]
    /\ pidFile' = [pidFile EXCEPT ![WorkingFolder(run[l].target)] = File(PidText(l))]
    /\ UNCHANGED << platform, localTrialConfig, env, dirs, copied, scriptFile,
                    codeFile, st, sp, chk, last >>

\* The trial runner cannot be started: no pid marker, a failure status.
TrialFailsToStart(l) ==
    /\ run[l].phase = "script"
    /\ \E x \in ExitCodes(platform) \ {0} :
          run' = [run EXCEPT ![l].phase = "exited", ![l].exit = x]
    /\ UNCHANGED << platform, localTrialConfig, env, dirs, copied, scriptFile,
                    pidFile, codeFile, st, sp, chk, last >>

TrialExits(l) ==
    /\ run[l].phase = "trial"
    /\ \E x \in ExitCodes(platform) :
          run' = [run EXCEPT ![l].phase = "exited", ![l].exit = x]
    /\ UNCHANGED << platform, localTrialConfig, env, dirs, copied, scriptFile,
                    pidFile, codeFile, st, sp, chk, last >>

\* The redirection of the last statement creates the code marker ...
ScriptCreatesCode(l) ==
    /\ run[l].phase = "exited"
    /\ run' = [run EXCEPT ![l].phase = "created"]
    /\ codeFile' = [codeFile EXCEPT ![WorkingFolder(run[l].target)] = File(<<>>)]
    /\ UNCHANGED << platform, localTrialConfig, env, dirs, copied, scriptFile,
                    pidFile, st, sp, chk, last >>

\* ... and the statement's output goes into it.
ScriptWritesCode(l) ==
    /\ run[l].phase = "created"
    /\ run' = [run EXCEPT ![l].phase = "finished"]
    /\ codeFile' = [codeFile EXCEPT ![WorkingFolder(run[l].target)] =
                       File(FormatCode(run[l].exit, platform))]
    /\ UNCHANGED << platform, localTrialConfig, env, dirs, copied, scriptFile,
                    pidFile, st, sp, chk, last >>

\* kill -0 <pid>: a process with this id exists.
ProcessAlive(pid) == \E l \in Launches : l = pid /\ run[l].phase = "trial"

\* tree-kill with SIGKILL: the trial's process tree ends, with a failure
\* status; a pid that names no process is left alone.
TreeKill(pid) ==
    IF ProcessAlive(pid)
    THEN \E x \in ExitCodes(platform) \ {0} :
            run' = [run EXCEPT ![pid].phase = "exited", ![pid].exit = x]
    ELSE UNCHANGED run

(***************************************************************************)
(* stopEnvironment (lines 138-146).                                        *)
(***************************************************************************)
\* Lines 139-144: the isAlive test, the marker's path, the call of readFile.
StopEnvironment(e) ==
    /\ sp[e].pc = "idle"
    /\ InFlight < MaxInFlight
    /\ IF env[e].isAlive = FALSE
       THEN /\ last' = Ended("stop", e, "resolved")
            /\ UNCHANGED sp
       ELSE /\ sp' = [sp EXCEPT ![e] = [pc |-> "readPid",
                                        path |-> env[e].runnerWorkingFolder]]
            /\ UNCHANGED last
    /\ UNCHANGED << platform, localTrialConfig, env, world, st, chk >>

\* A variant that marks the environment FAILED when it has sent the signal.
StopReadDoneSettingStatus(e) ==
    /\ sp[e].pc = "readPid"
    /\ sp' = [sp EXCEPT ![e] = IdleStop]
    /\ LET file == FileAt(pidFile, sp[e].path)
       IN  IF file.exists
           THEN /\ TreeKill(NumberOf(file.data))
                /\ env' = [env EXCEPT ![e].status = "FAILED"]
                /\ last' = Ended("stop", e, "resolved")
           ELSE /\ last' = Ended("stop", e, "ENOENT")
                /\ UNCHANGED << run, env >>
    /\ UNCHANGED << platform, localTrialConfig, dirs, copied, scriptFile,
                    pidFile, codeFile, st, chk >>

\* Lines 144-145: readFile resolves with the pid and tree-kill is called, or
\* it rejects (no such file) and so does the call.
StopReadDone(e) ==
    /\ sp[e].pc = "readPid"
    /\ sp' = [sp EXCEPT ![e] = IdleStop]
    /\ LET file == FileAt(pidFile, sp[e].path)
       IN  IF file.exists
           THEN /\ TreeKill(NumberOf(file.data))
                /\ last' = Ended("stop", e, "resolved")
           ELSE /\ last' = Ended("stop", e, "ENOENT")
                /\ UNCHANGED run
    /\ UNCHANGED << platform, localTrialConfig, env, dirs, copied, scriptFile,
                    pidFile, codeFile, st, chk >>

\* The caller clears its isAlive flag of an environment that it has seen in
\* a terminal status.
CallerClearsAlive(e) ==
    /\ env[e].isAlive
    /\ env[e].status \in Terminal
    /\ env' = [env EXCEPT ![e].isAlive = FALSE]
    /\ UNCHANGED << platform, localTrialConfig, world, st, sp, chk, last >>

(***************************************************************************)
(* refreshEnvironmentsStatus (lines 54-89).  The call runs every callback  *)
(* of forEach up to its first await and returns; each callback is a check  *)
(* that goes on by itself, one action per await.                           *)
(***************************************************************************)
\* EnvironmentInformation.setStatus.
SetStatus(environment, status) == [environment EXCEPT !.status = status]

\* Lines 55-61, for every environment of the batch: the paths and
\* existsSync; the call returns.
RefreshEnvironmentsStatus(k, batch) ==
    /\ batch # {}
    /\ InFlight + Cardinality(batch) <= MaxInFlight
    /\ \A e \in Envs : chk[k][e].pc = "idle"
    /\ chk' = [chk EXCEPT ![k] = [e \in Envs |->
                 IF e \in batch
                 THEN [IdleCheck EXCEPT
                         !.pc = "exists",
                         !.folder = env[e].runnerWorkingFolder,
                         !.pidExist = FileAt(pidFile, env[e].runnerWorkingFolder).exists,
                         !.prior = env[e].status]
                 ELSE IdleCheck]]
    /\ last' = Ended("refresh", 0, "resolved")
    /\ UNCHANGED << platform, localTrialConfig, env, world, st, sp >>

\* The errors of a check: readFile rejects (an I/O error), the liveness
\* probe rejects.
ReadFailed == "EIO"
ProbeFailed == "exec failed"

\* A handler that gives up the rest of the batch and raises the error.
CatchRethrow(k, e, message) ==
    /\ chk' = [chk EXCEPT ![k] = [f \in Envs |-> IdleCheck]]
    /\ last' = Ended("refresh", 0, "rejected")

\* Lines 85-87: the handler of a check logs the error's message; the check
\* ends.
Catch(k, e, message) ==
    /\ chk' = [chk EXCEPT ![k][e] = IdleCheck]
    /\ last' = [Ended("check", e, "error") EXCEPT !.prior = chk[k][e].prior,
                                                  !.value = message]

\* A variant that resets the status when there is no pid marker.
CheckPidExistsReset(k, e) ==
    /\ chk[k][e].pc = "exists"
    /\ IF chk[k][e].pidExist
       THEN /\ chk' = [chk EXCEPT ![k][e].pc = "readPid"]
            /\ UNCHANGED << env, last >>
       ELSE /\ chk' = [chk EXCEPT ![k][e] = IdleCheck]
            /\ last' = Ended("check", e, "no pid")
            /\ env' = [env EXCEPT ![e].status = "WAITING"]
    /\ UNCHANGED << platform, localTrialConfig, world, st, sp >>

\* Lines 61-65: without a pid marker the check returns; with one it calls
\* readFile.
CheckPidExists(k, e) ==
    /\ chk[k][e].pc = "exists"
    /\ IF chk[k][e].pidExist
       THEN /\ chk' = [chk EXCEPT ![k][e].pc = "readPid"]
            /\ UNCHANGED last
       ELSE /\ chk' = [chk EXCEPT ![k][e] = IdleCheck]
            /\ last' = Ended("check", e, "no pid")
    /\ UNCHANGED << platform, localTrialConfig, env, world, st, sp >>

\* Lines 65-66: readFile resolves with the pid and isAlive is called, which
\* probes the process (kill -0); or readFile rejects.
CheckReadPid(k, e) ==
    /\ chk[k][e].pc = "readPid"
    /\ LET file == FileAt(pidFile, chk[k][e].folder)
       IN  \E ok \in BOOLEAN :
              IF ok /\ file.exists
              THEN /\ chk' = [chk EXCEPT ![k][e].pc = "isAlive",
                                         ![k][e].pid = file.data,
                                         ![k][e].alive = ProcessAlive(NumberOf(file.data))]
                   /\ UNCHANGED last
              ELSE Catch(k, e, ReadFailed)
    /\ UNCHANGED << platform, localTrialConfig, env, world, st, sp >>

\* Lines 67-71 as a function of the probe's answer and of existsSync of the
\* code marker: the environment and how the check goes on.
AfterAliveIgnoringProbe(environment, alive, codeExist) ==
    [environment |-> [environment EXCEPT !.status = "RUNNING"],
     next |-> IF codeExist THEN "readCode" ELSE "no code"]

AfterAliveFailingFast(environment, alive, codeExist) ==
    [environment |->
        [environment EXCEPT !.status =
            IF ~alive /\ ~codeExist THEN "FAILED" ELSE "RUNNING"],
     next |-> IF alive THEN "alive"
              ELSE IF codeExist THEN "readCode" ELSE "no code"]

\* A variant that does not look for the code marker.
AfterAliveNeverReads(environment, alive, codeExist) ==
    [environment |-> [environment EXCEPT !.status = "RUNNING"],
     next |-> IF alive THEN "alive" ELSE "no code"]

AfterAlive(environment, alive, codeExist) ==
    [environment |-> [environment EXCEPT !.status = "RUNNING"],
     next |-> IF alive THEN "alive"
              ELSE IF codeExist THEN "readCode" ELSE "no code"]

\* Lines 66-71: isAlive resolves, the status is set to RUNNING and, when the
\* process is gone, the code marker is looked for and readFile is called; or
\* isAlive rejects.
CheckAfterAlive(k, e) ==
    /\ chk[k][e].pc = "isAlive"
    /\ \E ok \in BOOLEAN :
          IF ok
          THEN LET codeExist == FileAt(codeFile, chk[k][e].folder).exists
                   r == AfterAlive(env[e], chk[k][e].alive, codeExist)
               IN  /\ env' = [env EXCEPT ![e] = r.environment]
                   /\ IF r.next = "readCode"
                      THEN /\ chk' = [chk EXCEPT ![k][e].pc = "readCode",
                                                 ![k][e].pid = <<>>]
                           /\ UNCHANGED last
                      ELSE /\ chk' = [chk EXCEPT ![k][e] = IdleCheck]
                           /\ last' = Ended("check", e, r.next)
          ELSE Catch(k, e, ProbeFailed) /\ UNCHANGED env
    /\ UNCHANGED << platform, localTrialConfig, world, st, sp >>

\* A variant without the null test of line 74: taking the group of a match
\* that is null throws.
CheckReadCodeThrowing(k, e) ==
    /\ chk[k][e].pc = "readCode"
    /\ LET file == FileAt(codeFile, chk[k][e].folder)
       IN  \E ok \in BOOLEAN :
              IF ok /\ file.exists
              THEN IF StatusOfCode(file.data) = ""
                   THEN Catch(k, e, "TypeError") /\ UNCHANGED env
                   ELSE /\ chk' = [chk EXCEPT ![k][e] = IdleCheck]
                        /\ env' = [env EXCEPT ![e] =
                                     SetStatus(@, StatusOfCode(file.data))]
                        /\ last' = Ended("check", e, "code")
              ELSE Catch(k, e, ReadFailed) /\ UNCHANGED env
    /\ UNCHANGED << platform, localTrialConfig, world, st, sp >>

\* Lines 71-83: readFile resolves with the marker's content and the status
\* follows the exit code, or it rejects.
CheckReadCode(k, e) ==
    /\ chk[k][e].pc = "readCode"
    /\ LET file == FileAt(codeFile, chk[k][e].folder)
       IN  \E ok \in BOOLEAN :
              IF ok /\ file.exists
              THEN /\ chk' = [chk EXCEPT ![k][e] = IdleCheck]
                   /\ IF StatusOfCode(file.data) = ""
                      THEN /\ UNCHANGED env
                           /\ last' = Ended("check", e, "no match")
                      ELSE /\ env' = [env EXCEPT ![e] =
                                        SetStatus(@, StatusOfCode(file.data))]
                           /\ last' = Ended("check", e, "code")
              ELSE Catch(k, e, ReadFailed) /\ UNCHANGED env
    /\ UNCHANGED << platform, localTrialConfig, world, st, sp >>

(***************************************************************************)
(* The service with its caller and the launched scripts.  The caller       *)
(* configures the trial configuration once; calls with other keys and      *)
(* other values, and calls that replace the configuration, are those of    *)
(* SpecConfig.                                                             *)
(***************************************************************************)
Next ==
    \/ localTrialConfig = Undefined
          /\ \E value \in ConfigValues : Config(TRIAL_CONFIG, value)
    \/ \E e \in Envs : StartEnvironment(e)
    \/ \E e \in Envs : StartMkdirDone(e)
    \/ \E e \in Envs : StartCopydirDone(e)
    \/ \E e \in Envs : StartWriteDone(e)
    \/ \E l \in Launches : LauncherReads(l)
    \/ \E l \in Launches : TrialStarts(l)
    \/ \E l \in Launches : TrialFailsToStart(l)
    \/ \E l \in Launches : TrialExits(l)
    \/ \E l \in Launches : ScriptCreatesCode(l)
    \/ \E l \in Launches : ScriptWritesCode(l)
    \/ \E e \in Envs : StopEnvironment(e)
    \/ \E e \in Envs : StopReadDone(e)
    \/ \E e \in Envs : CallerClearsAlive(e)
    \/ \E k \in Polls, batch \in SUBSET Envs : RefreshEnvironmentsStatus(k, batch)
    \/ \E k \in Polls, e \in Envs : CheckPidExists(k, e)
    \/ \E k \in Polls, e \in Envs : CheckReadPid(k, e)
    \/ \E k \in Polls, e \in Envs : CheckAfterAlive(k, e)
    \/ \E k \in Polls, e \in Envs : CheckReadCode(k, e)

Spec == Init /\ [][Next]_vars

(***************************************************************************)
(* The poll of one environment as a function of what it finds: the first   *)
(* environment has been started and is in any status, with or without a    *)
(* pid marker, its trial running or gone, and with any content of the code *)
(* marker, or none; the caller polls it again and again, and stops it,     *)
(* while the script goes on.  The caller polls as its loop does, one call after the other.   *)
(***************************************************************************)
CodeAlphabet == {"-", "0", "2", " ", "\n"}
Contents == UNION {[1..n -> CodeAlphabet] : n \in 0..MaxCodeLen}

StartedCommand(e, p) ==
    LET g == GetScript(NewEnvironment, e, p)
    IN  JoinScript(g.script, g.environment.command.depth)

InitPoll ==
    /\ platform \in Platforms
    /\ localTrialConfig = JsonParse("{command:A}")
    /\ \E status \in Statuses :
          env = [e \in Envs |->
                   IF e = 1
                   THEN [status |-> status,
                         command |-> StartedCommand(e, platform),
                         runnerWorkingFolder |-> WorkingFolder(e),
                         trackingUrl |-> WorkingFolder(e),
                         isAlive |-> TRUE]
                   ELSE NewEnvironment]
    /\ dirs = {WorkingFolder(1)}
    /\ copied = TRUE
    /\ scriptFile = [exists |-> TRUE, data |-> StartedCommand(1, platform)]
    /\ \E pid \in {Absent, File(PidText(1))} :
          pidFile = [f \in Folders |-> IF f = WorkingFolder(1) THEN pid ELSE Absent]
    /\ \E code \in {Absent} \cup {File(c) : c \in Contents} :
          codeFile = [f \in Folders |-> IF f = WorkingFolder(1) THEN code ELSE Absent]
    /\ \E r \in {[phase |-> "trial", owner |-> 1, target |-> 1, exit |-> 0]}
                \cup {[phase |-> "exited", owner |-> 1, target |-> 1, exit |-> x] :
                         x \in ExitCodes(platform)} :
          run = [l \in Launches |-> IF l = 1 THEN r ELSE NoRun]
    /\ st = [e \in Envs |-> IdleStart]
    /\ sp = [e \in Envs |-> IdleStop]
    /\ chk = [k \in Calls |-> [e \in Envs |-> IdleCheck]]
    /\ last = Nothing

NextPoll ==
    \/ \E k \in Polls : NoCheckOf(1) /\ RefreshEnvironmentsStatus(k, {1})
    \/ \E k \in Polls, e \in Envs : CheckPidExists(k, e)
    \/ \E k \in Polls, e \in Envs : CheckReadPid(k, e)
    \/ \E k \in Polls, e \in Envs : CheckAfterAlive(k, e)
    \/ \E k \in Polls, e \in Envs : CheckReadCode(k, e)
    \/ \E l \in Launches : TrialExits(l)
    \/ \E l \in Launches : ScriptCreatesCode(l)
    \/ \E l \in Launches : ScriptWritesCode(l)
    \/ StopEnvironment(1)
    \/ StopReadDone(1)

SpecPoll == InitPoll /\ [][NextPoll]_vars

(***************************************************************************)
(* The configuration intake with every kind of value, and the start calls  *)
(* that read the configuration.                                            *)
(***************************************************************************)
SerializedValues == {"{command:A}", "{command:B}", "{command"}

NextConfig ==
    \/ \E key \in ConfigKeys, value \in SerializedValues : Config(key, value)
    \/ \E e \in Envs : StartEnvironment(e)
    \/ \E e \in Envs : StartMkdirDone(e)
    \/ \E e \in Envs : StartCopydirDone(e)
    \/ \E e \in Envs : StartWriteDone(e)

SpecConfig == Init /\ [][NextConfig]_vars

(***************************************************************************)
(* Two refreshEnvironmentsStatus calls whose checks of one environment     *)
(* overlap: the first environment has been started and its trial is        *)
(* running; the second call is made while the check of the first is in     *)
(* flight, so that of two checks in flight the one of call 2 has started    *)
(* later.                                                                  *)
(***************************************************************************)
InitRunning ==
    /\ platform \in Platforms
    /\ localTrialConfig = JsonParse("{command:A}")
    /\ env = [e \in Envs |->
                IF e = 1
                THEN [NewEnvironment EXCEPT
                        !.command = StartedCommand(e, platform),
                        !.runnerWorkingFolder = WorkingFolder(e),
                        !.trackingUrl = WorkingFolder(e)]
                ELSE NewEnvironment]
    /\ dirs = {WorkingFolder(1)}
    /\ copied = TRUE
    /\ scriptFile = [exists |-> TRUE, data |-> StartedCommand(1, platform)]
    /\ pidFile = [f \in Folders |->
                    IF f = WorkingFolder(1) THEN File(PidText(1)) ELSE Absent]
    /\ codeFile = [f \in Folders |-> Absent]
    /\ run = [l \in Launches |->
                IF l = 1
                THEN [phase |-> "trial", owner |-> 1, target |-> 1, exit |-> 0]
                ELSE NoRun]
    /\ st = [e \in Envs |-> IdleStart]
    /\ sp = [e \in Envs |-> IdleStop]
    /\ chk = [k \in Calls |-> [e \in Envs |-> IdleCheck]]
    /\ last = Nothing

NextOverlap ==
    \/ NoCheckOf(1) /\ RefreshEnvironmentsStatus(1, {1})
    \/ chk[1][1].pc # "idle" /\ RefreshEnvironmentsStatus(2, {1})
    \/ \E k \in Calls, e \in Envs : CheckPidExists(k, e)
    \/ \E k \in Calls, e \in Envs : CheckReadPid(k, e)
    \/ \E k \in Calls, e \in Envs : CheckAfterAlive(k, e)
    \/ \E k \in Calls, e \in Envs : CheckReadCode(k, e)
    \/ \E l \in Launches : TrialExits(l)
    \/ \E l \in Launches : ScriptCreatesCode(l)
    \/ \E l \in Launches : ScriptWritesCode(l)

SpecOverlap == InitRunning /\ [][NextOverlap]_vars

(***************************************************************************)
(* A caller that keeps polling a started environment, and may stop it,     *)
(* while its script goes on.  The caller's loop calls                      *)
(* refreshEnvironmentsStatus again and again; every await of a check       *)
(* returns, and readFile and the liveness probe do not fail for ever.      *)
(***************************************************************************)
NextLive ==
    \/ \E k \in Polls : NoCheckOf(1) /\ RefreshEnvironmentsStatus(k, {1})
    \/ \E k \in Polls, e \in Envs : CheckPidExists(k, e)
    \/ \E k \in Polls, e \in Envs : CheckReadPid(k, e)
    \/ \E k \in Polls, e \in Envs : CheckAfterAlive(k, e)
    \/ \E k \in Polls, e \in Envs : CheckReadCode(k, e)
    \/ \E l \in Launches : TrialExits(l)
    \/ \E l \in Launches : ScriptCreatesCode(l)
    \/ \E l \in Launches : ScriptWritesCode(l)
    \/ StopEnvironment(1)
    \/ StopReadDone(1)

\* The step of a check does not end in the handler.
NoError(k, e) == chk'[k][e].pc # "idle" \/ last'.outcome # "error"

PollingIsFair ==
    /\ WF_vars(\E k \in Polls : NoCheckOf(1) /\ RefreshEnvironmentsStatus(k, {1}))
    /\ \A k \in Polls :
          /\ WF_vars(CheckPidExists(k, 1))
          /\ SF_vars(CheckReadPid(k, 1) /\ NoError(k, 1))
          /\ SF_vars(CheckAfterAlive(k, 1) /\ NoError(k, 1))
          /\ SF_vars(CheckReadCode(k, 1) /\ NoError(k, 1))

SpecLive == InitRunning /\ [][NextLive]_vars /\ PollingIsFair

(***************************************************************************)
(* getScript as a function of the environment and the platform: every      *)
(* platform, and records in any status, with the caller's command or with  *)
(* the command of an earlier start; the function is applied to a record    *)
(* and what it returns is kept.                                            *)
(***************************************************************************)
ScriptInputs(e, p) ==
    [status : Statuses,
     command : {BaseCommand, StartedCommand(e, p)},
     runnerWorkingFolder : {WorkingFolder(e)},
     trackingUrl : {NoFolder},
     isAlive : BOOLEAN]

InitScript ==
    /\ platform \in Platforms
    /\ localTrialConfig = JsonParse("{command:A}")
    /\ env \in [Envs -> UNION {ScriptInputs(e, platform) : e \in Envs}]
    /\ \A e \in Envs : env[e] \in ScriptInputs(e, platform)
    /\ dirs = {}
    /\ copied = FALSE
    /\ scriptFile = [exists |-> FALSE, data |-> BaseCommand]
    /\ pidFile = [f \in Folders |-> Absent]
    /\ codeFile = [f \in Folders |-> Absent]
    /\ run = [l \in Launches |-> NoRun]
    /\ st = [e \in Envs |-> IdleStart]
    /\ sp = [e \in Envs |-> IdleStop]
    /\ chk = [k \in Calls |-> [e \in Envs |-> IdleCheck]]
    /\ last = Nothing

\* this.getScript(environment), line 128: the record as the call leaves it
\* and the statements it returns.
ApplyGetScript(e) ==
    /\ LET g == GetScript(env[e], e, platform)
       IN  /\ env' = [env EXCEPT ![e] = g.environment]
           /\ st' = [st EXCEPT ![e] = [pc |-> "getScript",
                                       data |-> [depth |-> 0, stmts |-> g.script]]]
    /\ UNCHANGED << platform, localTrialConfig, world, sp, chk, last >>

NextScript == \E e \in Envs : ApplyGetScript(e)

SpecScript == InitScript /\ [][NextScript]_vars

(***************************************************************************)
(* Properties.                                                             *)
(***************************************************************************)
\* The check of environment e of call k takes a step, or ends with it.
CheckSteps(k, e) == chk[k][e].pc # "idle" /\ chk'[k][e] # chk[k][e]
CheckEnds(k, e) == chk[k][e].pc # "idle" /\ chk'[k][e].pc = "idle"
CheckFails(k, e) == CheckEnds(k, e) /\ last'.outcome = "error"

\* C1: an environment's status never moves backward in the order WAITING,
\* RUNNING, {SUCCEEDED, FAILED}: no step takes a terminal status to a status
\* that is not terminal, and none takes RUNNING to WAITING.
StatusNeverMovesBackward ==
    [][\A e \in Envs :
          /\ env[e].status \in Terminal => env'[e].status \in Terminal
          /\ env[e].status = "RUNNING" => env'[e].status # "WAITING"]_vars

\* The pattern '<optional sign><digits> <digits>' and the exit code it
\* holds, read off the text itself.
IsDigits(t) == t # <<>> /\ \A i \in 1..Len(t) : t[i] \in Digits
Unsigned(t) == IF t # <<>> /\ t[1] = "-" THEN Tail(t) ELSE t
HasPattern(s) ==
    \E i \in 1..Len(s) :
       /\ s[i] = " "
       /\ IsDigits(Unsigned(SubSeq(s, 1, i - 1)))
       /\ IsDigits(SubSeq(s, i + 1, Len(s)))
ExitCodeIsZero(s) ==
    \E i \in 1..Len(s) :
       /\ s[i] = " "
       /\ \A j \in 1..(i - 1) : s[j] \in {"-", "0"}

\* C2: a check that found the pid marker, found the process gone and ends
\* without an error while the code marker holds '<optional sign><digits>
\* <digits>' leaves the status SUCCEEDED if the exit code is 0 and FAILED
\* otherwise, whatever the status was.
ExitCodeDecidesStatus ==
    [][\A k \in Calls, e \in Envs :
          LET code == FileAt(codeFile, chk[k][e].folder)
          IN  ( /\ CheckEnds(k, e)
                /\ ~CheckFails(k, e)
                /\ chk[k][e].pidExist
                /\ chk[k][e].pc \in {"isAlive", "readCode"}
                /\ ~chk[k][e].alive
                /\ code.exists
                /\ HasPattern(code.data) )
              => env'[e].status =
                    IF ExitCodeIsZero(code.data) THEN "SUCCEEDED" ELSE "FAILED"]_vars

\* A poll found the exit code -0 and has left the status SUCCEEDED.
SignedZeroSucceeded ==
    /\ last = Ended("check", 1, "code")
    /\ NoCheckOf(1)
    /\ FileAt(codeFile, env[1].runnerWorkingFolder).data = <<"-", "0", " ", "2">>
    /\ env[1].status = "SUCCEEDED"

\* C3: a check of an environment without a pid marker ends without touching
\* the status, whatever the status is and with or without a code marker:
\* neither the call that begins the check nor the step that ends it changes
\* the status.
NoPidLeavesStatus ==
    [][\A k \in Calls, e \in Envs :
          /\ (chk[k][e].pc = "idle" /\ chk'[k][e].pc # "idle")
                => env'[e].status = env[e].status
          /\ (CheckSteps(k, e) /\ chk[k][e].pc = "exists" /\ ~chk[k][e].pidExist)
                => /\ env'[e].status = env[e].status
                   /\ CheckEnds(k, e)
                   /\ last' = Ended("check", e, "no pid")]_vars

\* A poll without a pid marker, with a code marker, has ended and the status
\* is still FAILED.
NoPidPolled ==
    /\ last = Ended("check", 1, "no pid")
    /\ NoCheckOf(1)
    /\ ~FileAt(pidFile, env[1].runnerWorkingFolder).exists
    /\ FileAt(codeFile, env[1].runnerWorkingFolder).exists
    /\ env[1].status = "FAILED"

\* C4: a check that has found the process of the pid marker alive sets the
\* status to RUNNING and ends there, code marker or not: it assigns no
\* terminal status.
AliveMeansRunning ==
    [][\A k \in Calls, e \in Envs :
          ( /\ CheckSteps(k, e)
            /\ ~CheckFails(k, e)
            /\ chk[k][e].pc = "isAlive"
            /\ chk[k][e].alive )
          => /\ env'[e].status = "RUNNING"
             /\ CheckEnds(k, e)]_vars

\* A poll has found the process alive beside a code marker that holds a
\* well-formed exit code, and the status is RUNNING.
AlivePolledWithCode ==
    /\ last = Ended("check", 1, "alive")
    /\ NoCheckOf(1)
    /\ ProcessAlive(1)
    /\ FileAt(codeFile, env[1].runnerWorkingFolder).data = <<"0", " ", "2">>
    /\ env[1].status = "RUNNING"

\* The pid marker is there, its process is gone and there is no code marker.
ExitedWithoutCode(e) ==
    LET pid == FileAt(pidFile, env[e].runnerWorkingFolder)
    IN  /\ pid.exists
        /\ ~ProcessAlive(NumberOf(pid.data))
        /\ ~FileAt(codeFile, env[e].runnerWorkingFolder).exists

\* C5: a check that has found the process of the pid marker gone and finds no
\* code marker sets the status to RUNNING and ends; and while the process is
\* gone and there is no code marker, a RUNNING status stays RUNNING.
ExitedWithoutCodeStaysRunning ==
    [][\A k \in Calls, e \in Envs :
          /\ ( /\ CheckSteps(k, e)
               /\ ~CheckFails(k, e)
               /\ chk[k][e].pc = "isAlive"
               /\ ~chk[k][e].alive
               /\ ~FileAt(codeFile, chk[k][e].folder).exists )
             => /\ env'[e].status = "RUNNING"
                /\ CheckEnds(k, e)
          /\ (env[e].status = "RUNNING" /\ ExitedWithoutCode(e) /\ ExitedWithoutCode(e)')
             => env'[e].status = "RUNNING"]_vars

\* A poll has found the process gone and no code marker, and the status,
\* which was SUCCEEDED or FAILED or WAITING, is RUNNING.
ExitedPolledWithoutCode ==
    /\ last = Ended("check", 1, "no code")
    /\ NoCheckOf(1)
    /\ ExitedWithoutCode(1)
    /\ env[1].status = "RUNNING"

\* A stopEnvironment call of environment e ends with this step.
StopEnds(e) ==
    \/ sp[e].pc = "readPid" /\ sp'[e].pc = "idle"
    \/ sp[e].pc = "idle" /\ last' # last /\ last'.op = "stop" /\ last'.env = e

\* C6: a stop call of an environment that ends right after another stop call
\* of the same environment has ended raises no error, as the first did not,
\* and leaves the environment's record and the files as the first left them.
StopTwiceIsStopOnce ==
    [][\A e \in Envs :
          (last.op = "stop" /\ last.env = e /\ StopEnds(e))
          => /\ last.outcome = "resolved"
             /\ last'.outcome = "resolved"
             /\ env' = env
             /\ UNCHANGED << dirs, copied, scriptFile, pidFile, codeFile >>]_vars

\* C7: a start call made without a trial configuration gets no further than
\* its first line: it fails, and the environment's record, the files and the
\* processes are as before; and only such a call fails this way.
StartWithoutConfigChangesNothing ==
    [][/\ localTrialConfig = Undefined => \A e \in Envs : st'[e].pc = "idle"
       /\ \A e \in Envs :
             (st[e].pc = "idle" /\ st'[e].pc # "idle")
             => localTrialConfig # Undefined
       /\ (last' # last /\ last'.op = "start" /\ last'.outcome = ConfigErrorMessage)
             => /\ localTrialConfig = Undefined
                /\ UNCHANGED << env, world, st, localTrialConfig >>]_vars

\* A start call has failed for want of a configuration, and nothing is
\* there: the record as the caller made it, no folder, no script, no launch.
StartFailedWithoutConfig ==
    /\ last = Ended("start", 1, ConfigErrorMessage)
    /\ localTrialConfig = Undefined
    /\ env[1] = NewEnvironment
    /\ dirs = {} /\ ~copied /\ ~scriptFile.exists
    /\ \A l \in Launches : run[l] = NoRun

\* C8: a stop call of an environment with isAlive true that finds no pid
\* marker kills nothing and resolves.
StopWithoutPidMarkerResolves ==
    [][\A e \in Envs :
          ( /\ sp[e].pc = "readPid"
            /\ sp'[e].pc = "idle"
            /\ ~FileAt(pidFile, sp[e].path).exists )
          => /\ run' = run
             /\ last' = Ended("stop", e, "resolved")]_vars

\* C9: no refreshEnvironmentsStatus call is rejected, and a step of the check
\* of one environment, the end of the check in its handler included, leaves
\* the record and the check of every other environment of the batch as they
\* are.
ChecksAreIsolated ==
    [][/\ ~(last'.op = "refresh" /\ last'.outcome = "rejected")
       /\ \A k \in Calls, e \in Envs :
             CheckSteps(k, e)
             => \A f \in Envs \ {e} :
                   env'[f] = env[f] /\ chk'[k][f] = chk[k][f]]_vars

\* The check of one environment has ended in its handler while the check of
\* another environment of the same batch is still going on.
CheckFailedBesideAnother ==
    \E k \in Calls, e \in Envs, f \in Envs :
       /\ e # f
       /\ last = [Ended("check", e, "error") EXCEPT !.prior = last.prior,
                                                   !.value = last.value]
       /\ chk[k][f].pc \in {"readPid", "isAlive", "readCode"}

\* C10: after a check of an environment has ended in its handler (a marker
\* that could not be read, a liveness probe that failed), the environment's
\* status is the one it had when the check began.
ErrorLeavesStatus ==
    \A e \in Envs :
       (last.op = "check" /\ last.env = e /\ last.outcome = "error" /\ NoCheckOf(e))
       => env[e].status = last.prior

\* Launch l writes the pid marker, or creates the code marker, with this step.
WritesPid(l) == run[l].phase = "script" /\ run'[l].phase = "trial"
WritesCode(l) == run[l].phase = "exited" /\ run'[l].phase = "created"

\* A step of the service itself: of a call of config, startEnvironment or
\* stopEnvironment, or of a check of refreshEnvironmentsStatus.
ServiceStep ==
    \/ localTrialConfig' # localTrialConfig
    \/ st' # st
    \/ sp' # sp
    \/ chk' # chk

\* C11: the pid marker and the code marker of an environment are each
\* written at most once, by the script that was launched for that
\* environment, and never by a step of the service itself: a launch writes
\* a marker only into the folder of the environment whose start call
\* spawned it and only where no such marker is yet, and a step that changes
\* a marker is no step of the service.
MarkersWrittenOnce ==
    [][/\ \A l \in Launches :
             /\ WritesPid(l)
                   => /\ run[l].target = run[l].owner
                      /\ ~pidFile[WorkingFolder(run[l].target)].exists
             /\ WritesCode(l)
                   => /\ run[l].target = run[l].owner
                      /\ ~codeFile[WorkingFolder(run[l].target)].exists
       /\ (pidFile' # pidFile \/ codeFile' # codeFile) => ~ServiceStep]_vars

\* C12: the starts of two environments do not meet on a path: the script
\* file that a start call has written and launched still holds the statements
\* generated for that call's environment when the launcher reads it, however
\* the start calls of other environments interleave with it.
StartsDoNotContend ==
    [][\A l \in Launches :
          (run[l].phase = "spawned" /\ run'[l].phase = "script")
          => /\ scriptFile.exists
             /\ ScriptTarget(scriptFile.data) = run[l].owner]_vars

\* C13: a config call with the trial configuration key that resolves
\* replaces the stored configuration by the parsed value, whatever was
\* stored; a config call with any other key resolves, whatever its value,
\* and leaves the stored configuration as it is; the stored configuration
\* changes in no other way, so that a start call still fails while only
\* other keys have been configured.
ConfigStoresTrialConfig ==
    [][/\ (last' # last /\ last'.op = "config")
             => IF last'.key = TRIAL_CONFIG
                THEN IF last'.outcome = "resolved"
                     THEN localTrialConfig' = JsonParse(last'.value)
                     ELSE UNCHANGED localTrialConfig
                ELSE /\ last'.outcome = "resolved"
                     /\ UNCHANGED localTrialConfig
       /\ localTrialConfig' # localTrialConfig
             => /\ last'.op = "config"
                /\ last'.key = TRIAL_CONFIG
                /\ last'.outcome = "resolved"
       /\ (last' # last /\ last'.op = "start" /\ localTrialConfig = Undefined)
             => last'.outcome = ConfigErrorMessage]_vars

\* A second trial configuration has replaced the first, under which an
\* environment was started, and a call with another key and a value that is
\* no JSON has resolved and left it there.
OtherKeyLeftConfig ==
    /\ last = ConfigEnded("other_key", "{command", "resolved")
    /\ localTrialConfig = "TrialConfig:B"
    /\ env[1].trackingUrl # NoFolder
    /\ env[2].trackingUrl = NoFolder
    /\ st[2].pc = "copydir"

\* C17: when a refreshEnvironmentsStatus call has completed, every check of
\* its batch has finished: while the call's resolution is the last thing
\* that has ended, no check is waiting for a marker to be read or for the
\* liveness probe.
RefreshJoinsItsChecks ==
    last = Ended("refresh", 0, "resolved")
    => \A k \in Calls, e \in Envs :
          chk[k][e].pc \notin {"readPid", "isAlive", "readCode"}

\* C18: of two overlapping checks of an environment, the one that started
\* first cannot overwrite the result of the one that started later: when
\* the check of call 1 ends, the check of call 2 having ended before it
\* with the exit code of a well-formed code marker, the status is the
\* terminal status of that exit code.
LaterCheckDecides ==
    [][\A e \in Envs :
          ( /\ CheckEnds(1, e)
            /\ chk[2][e].pc = "idle"
            /\ last = Ended("check", e, "code") )
          => env'[e].status =
                IF ExitCodeIsZero(FileAt(codeFile, env[e].runnerWorkingFolder).data)
                THEN "SUCCEEDED" ELSE "FAILED"]_vars

\* The content of a code marker matches the pattern: inside white space, an
\* optional sign, digits, white space and digits.
IsBlank(t) == \A i \in 1..Len(t) : t[i] \in WhiteSpace
WellFormed(s) ==
    \E a, b, c, d \in 1..Len(s) :
       /\ a <= b /\ b + 1 < c /\ c <= d
       /\ \/ IsBlank(SubSeq(s, 1, a - 1))
          \/ a >= 2 /\ s[a - 1] = "-" /\ IsBlank(SubSeq(s, 1, a - 2))
       /\ IsDigits(SubSeq(s, a, b))
       /\ IsBlank(SubSeq(s, b + 1, c - 1))
       /\ IsDigits(SubSeq(s, c, d))
       /\ IsBlank(SubSeq(s, d + 1, Len(s)))

\* C14: a step gives an environment the status SUCCEEDED or FAILED only as
\* the end of a check of that environment that found the pid marker, found
\* its process gone and reads a code marker whose content matches the
\* pattern; so while the process of the pid marker lives, or the code marker
\* is missing or malformed, no poll and no stop call makes the status
\* terminal.
TerminalOnlyFromCode ==
    [][\A e \in Envs :
          (env'[e].status \in Terminal /\ env'[e].status # env[e].status)
          => \E k \in Calls :
                LET pid == FileAt(pidFile, chk[k][e].folder)
                    code == FileAt(codeFile, chk[k][e].folder)
                IN  /\ CheckEnds(k, e)
                    /\ chk[k][e].pc = "readCode"
                    /\ chk[k][e].pidExist
                    /\ ~chk[k][e].alive
                    /\ pid.exists
                    /\ ~ProcessAlive(NumberOf(pid.data))
                    /\ code.exists
                    /\ WellFormed(code.data)]_vars

\* The trial is gone with a failure status, the script has written it into
\* the code marker and a poll has made the status FAILED, while a stop call
\* is reading the pid marker.
FailedPolledWhileStopping ==
    /\ last = Ended("check", 1, "code")
    /\ sp[1].pc = "readPid"
    /\ env[1].status = "FAILED"
    /\ run[1].phase = "finished"
    /\ FileAt(codeFile, env[1].runnerWorkingFolder) = File(FormatCode(run[1].exit, platform))
    /\ ~ProcessAlive(1)

\* C15: a check that found the process gone and reads a code marker whose
\* content does not match the pattern ends as the same check without a code
\* marker does: with the status that the poll yields when the marker is
\* absent, which is neither SUCCEEDED nor FAILED, and with no error, unless
\* the read itself failed.
MalformedCodeIsNoCode ==
    [][\A k \in Calls, e \in Envs :
          LET code == FileAt(codeFile, chk[k][e].folder)
              began == [env[e] EXCEPT !.status = chk[k][e].prior]
          IN  ( /\ CheckSteps(k, e)
                /\ chk[k][e].pc = "readCode"
                /\ code.exists
                /\ ~WellFormed(code.data) )
              => /\ CheckEnds(k, e)
                 /\ env'[e].status = AfterAlive(began, FALSE, FALSE).environment.status
                 /\ env'[e].status \notin Terminal
                 /\ last'.outcome \in {"no match", "error"}
                 /\ last'.outcome = "error" => last'.value = ReadFailed]_vars

\* A poll has found the process gone and a code marker that holds an exit
\* code and no time stamp, and has ended without an error; the status is
\* RUNNING.
MalformedCodePolled ==
    /\ last = Ended("check", 1, "no match")
    /\ NoCheckOf(1)
    /\ FileAt(codeFile, env[1].runnerWorkingFolder).data = <<"0", " ">>
    /\ env[1].status = "RUNNING"

\* The pid marker exists, its process is gone and the code marker holds a
\* well-formed exit code.
CodeInPlace(e) ==
    LET pid == FileAt(pidFile, env[e].runnerWorkingFolder)
        code == FileAt(codeFile, env[e].runnerWorkingFolder)
    IN  /\ pid.exists
        /\ ~ProcessAlive(NumberOf(pid.data))
        /\ code.exists
        /\ WellFormed(code.data)

StatusFollowsCode(e) ==
    env[e].status =
       IF ExitCodeIsZero(FileAt(codeFile, env[e].runnerWorkingFolder).data)
       THEN "SUCCEEDED" ELSE "FAILED"

\* C16: once the pid marker exists, its process has exited (by itself or
\* killed by a stop call) and the script has written a well-formed code
\* marker, then under repeated polling the environment's status is
\* eventually the terminal status of the exit code: SUCCEEDED for 0, FAILED
\* otherwise.
CodeLeadsToTerminal ==
    CodeInPlace(1) ~> (CodeInPlace(1) /\ StatusFollowsCode(1))

\* The trial has exited with 0, the script has written the code marker and
\* a poll has made the status SUCCEEDED.
ExitedThenSucceeded ==
    /\ CodeInPlace(1)
    /\ StatusFollowsCode(1)
    /\ env[1].status = "SUCCEEDED"
    /\ run[1].phase = "finished"
    /\ NoCheckOf(1)

\* C19: the status of an environment changes only in a step of a check of
\* that environment: no step of a config, start or stop call changes the
\* status of any environment; a step of refreshEnvironmentsStatus or of one
\* of its checks changes nothing of a record but the status; and once a
\* start call has set the tracking url, it equals the working folder.
OnlyRefreshChangesStatus ==
    [][/\ \A e \in Envs :
             env'[e].status # env[e].status => \E k \in Calls : CheckSteps(k, e)
       /\ ( \/ localTrialConfig' # localTrialConfig
            \/ st' # st
            \/ sp' # sp
            \/ last' # last /\ last'.op \in {"config", "start", "stop"} )
          => \A e \in Envs : env'[e].status = env[e].status
       /\ chk' # chk
          => \A e \in Envs : env' [e] = [env[e] EXCEPT !.status = env'[e].status]
       /\ \A e \in Envs :
             /\ (st[e].pc = "writeFile" /\ st'[e].pc = "idle")
                   => env'[e].trackingUrl = WorkingFolder(e)
             /\ env'[e].trackingUrl # NoFolder
                   => env'[e].trackingUrl = env'[e].runnerWorkingFolder]_vars

\* A stop call of a started environment has resolved and its trial is gone;
\* the status is still RUNNING and the tracking url is the working folder.
StoppedStillRunning ==
    /\ last = Ended("stop", 1, "resolved")
    /\ env[1].status = "RUNNING"
    /\ env[1].isAlive
    /\ env[1].trackingUrl = WorkingFolder(1)
    /\ env[1].runnerWorkingFolder = WorkingFolder(1)
    /\ FileAt(pidFile, WorkingFolder(1)).exists
    /\ \E l \in Launches : run[l].phase = "exited" /\ run[l].target = 1

\* The statement writes the code marker of environment e with the
\* platform's time stamp.
WritesCodeMarker(stmt, e, p) ==
    /\ stmt.env = e
    /\ stmt.kind = CASE p = "win32" -> "Write-code"
                      [] p = "darwin" -> "echo-code-s999"
                      [] OTHER -> "echo-code-s3N"

\* C20: script generation has no side effect, on any platform: it leaves
\* the environment's record, the command included, as it is; applied again
\* to the same record it returns the same statements; and the last of the
\* statements is the one that writes the code marker.
ScriptGenerationIsPure ==
    [][\A e \in Envs :
          st'[e] # st[e]
          => /\ env'[e] = env[e]
             /\ st[e].pc = "getScript" => st'[e].data = st[e].data
             /\ LET script == st'[e].data.stmts
                IN  /\ script # <<>>
                    /\ WritesCodeMarker(script[Len(script)], e, platform)]_vars
====
